---- MODULE Spec2Model ----
(***************************************************************************)
(* Model of package yb (UNO-SOFT/yb): the incremental-build decision       *)
(* engine QtcIsOld / GoShouldBuild / GoInstall and the process-wide       *)
(* installed set (Installed, ResetInstalled).                              *)
(*                                                                         *)
(* Time is the value of ModTime().UnixMilli(): a positive integer for an   *)
(* existing file, 0 for what MTime returns when no path can be stat'ed.   *)
(* A target directory is the lexically ordered list of the entries         *)
(* filepath.WalkDir visits below its root.                                 *)
(***************************************************************************)
EXTENDS Integers, Sequences, FiniteSets, TLC

\* ---------------------------------------------------------------- bounds
MaxTime == 2
MaxFiles == 2

Targets == {"foo", "bar"}
Installers == {"w1", "w2"}
Readers == {"r1"}
Resetters == {"z1"}
Procs == Installers \cup Readers \cup Resetters

\* ------------------------------------------------------------ file system
VARIABLES tree, destTime, isCmd, goTime, goModTime, clock
\* ---------------------------------------------------------- installed set
VARIABLES installed, mu
\* ------------------------------------------- per-goroutine position, locals
VARIABLES pc, op, name, force, cancelled, ret
\* ------------------------------------------------- QtcIsOld's walk locals
VARIABLES caller, idx, nvis, old, err
\* ------------------------------------------------------ Installed's slice
VARIABLES ss
\* ------------------------------------------- history (observation only)
VARIABLES trace, genExit, compExit, det, giCancel, callErr, prev
VARIABLES cancelAt, sawErr
VARIABLES recorded, okSinceReset, okEver, must, may
VARIABLES modGen, modStart, modAfter

fsV == <<tree, destTime, isCmd, goTime, goModTime, clock>>
regV == <<installed, mu>>
walkV == <<caller, idx, nvis, old, err, cancelAt, sawErr>>
callV == <<op, name, force, ret, trace, genExit, compExit, det, giCancel, callErr, prev>>
rdV == <<ss, must, may>>
histV == <<recorded, okSinceReset, okEver>>
modV == <<modGen, modStart, modAfter>>
vars == <<fsV, regV, walkV, callV, rdV, histV, modV, pc, cancelled>>

\* ---------------------------------------------------------------- helpers
Ret(c, e) == [changed |-> c, err |-> e]

Entry(s, r, m, c) == [suffix |-> s, regular |-> r, mt |-> m, co |-> c]

\* the root directory itself, the first entry WalkDir hands to the callback
RootEntry == Entry("", FALSE, 1, 0)

\* MTime: the maximum UnixMilli of the paths that exist, 0 when none does
\* (ts: the set of the paths' times, 0 for a path os.Stat fails on).
MTime(ts) == CHOOSE m \in ts \cup {0} : \A x \in ts \cup {0} : m >= x

\* ctx.Err() != nil
CtxErrOff(done) == FALSE
CtxErr(done) == done

\* di.Type().IsRegular() && strings.HasSuffix(path, ".qtpl")
IsGenSource(e) == e.regular /\ e.suffix = "qtpl"

\* fi.ModTime().UnixMilli() > MTime(path + ".go")
IsOldGeq(mt, co) == mt >= MTime({co})
IsOld(mt, co) == mt > MTime({co})

\* The WalkDir callback of QtcIsOld: the new value of old and what it returns.
WalkFn(done, walkErr, oldv, e, infoErr) ==
  IF CtxErr(done) THEN [old |-> oldv, r |-> "ctx"]
  ELSE IF walkErr THEN [old |-> oldv, r |-> "nil"]
  ELSE IF oldv THEN [old |-> oldv, r |-> "SkipAll"]
  ELSE IF IsGenSource(e)
    THEN IF infoErr THEN [old |-> TRUE, r |-> "stat"]
         ELSE IF IsOld(e.mt, e.co) THEN [old |-> TRUE, r |-> "SkipAll"]
         ELSE [old |-> FALSE, r |-> "nil"]
  ELSE [old |-> oldv, r |-> "nil"]

\* filepath.Glob(name/*.go) then MTime: hand-written sources and the
\* generated companions of the directory's generator sources.
GlobGoTimes(t) == {goTime[t]} \cup {tree[t][i].co : i \in 1..Len(tree[t])}

\* GoShouldBuild after its QtcIsOld call, as first written (src/yb.go:83-97).
GoShouldBuildV1(oldv, errv, dest, cmd, gomod, maxT) ==
  IF errv # "nil" THEN TRUE
  ELSE IF oldv THEN TRUE
  ELSE IF dest # 0 /\ dest < gomod THEN TRUE
  ELSE maxT < gomod \/ (dest # 0 /\ dest < gomod)

\* GoShouldBuild after its QtcIsOld call.
GoShouldBuild(oldv, errv, dest, cmd, gomod, maxT) ==
  IF errv # "nil" THEN TRUE
  ELSE IF oldv THEN TRUE
  ELSE IF dest = 0 /\ cmd THEN TRUE
  ELSE IF dest # 0 /\ dest < gomod THEN TRUE
  ELSE FALSE

\* else if old || force
ShouldGenerate(o, f) == o \/ f

\* b, err := cmd.CombinedOutput(); err != nil
CmdErrIgnored(exit) == FALSE
CmdErr(exit) == exit # 0

\* installed[name] = struct{}{}
RecordInstalledOverwrite(m, n) == {n}
RecordInstalled(m, n) == m \cup {n}

\* clear(installed)
ClearInstalled(m) == {}

\* sync.RWMutex
NoLock == [writer |-> "none", readers |-> {}]
CanLock(m) == m.writer = "none" /\ m.readers = {}
CanRLock(m) == m.writer = "none"

\* the exit statuses a subprocess started with ctx can end with: a context
\* that is already done makes exec.Cmd fail without running the program.
Exits(done) == IF done THEN {1} ELSE {0, 1}

\* where QtcIsOld returns to
AfterWalk(c) ==
  IF c = "GoInstall" THEN "gi_old" ELSE IF c = "GoShouldBuild" THEN "sb_eval" ELSE "ret"

\* ------------------------------------------------------------------ Init
\* what is remembered of a goroutine's previous GoInstall call: its target,
\* whether the generator succeeded and the compiler failed, whether it
\* returned (true, nil), whether it met no file-system error, and (filled in
\* when the next call starts) whether no file changed since it began
NoPrev == [name |-> "", genOnly |-> FALSE, ok |-> FALSE, noErr |-> FALSE, noMod |-> FALSE]

InitProcs ==
  /\ installed = {}
  /\ mu = NoLock
  /\ pc = [p \in Procs |-> "idle"]
  /\ op = [p \in Procs |-> "none"]
  /\ name = [p \in Procs |-> "foo"]
  /\ force = [p \in Procs |-> FALSE]
  /\ cancelled = [p \in Procs |-> FALSE]
  /\ ret = [p \in Procs |-> Ret(FALSE, "none")]
  /\ caller = [p \in Procs |-> "none"]
  /\ idx = [p \in Procs |-> 0]
  /\ nvis = [p \in Procs |-> 0]
  /\ old = [p \in Procs |-> FALSE]
  /\ err = [p \in Procs |-> "nil"]
  /\ ss = [p \in Procs |-> {}]
  /\ trace = [p \in Procs |-> << >>]
  /\ genExit = [p \in Procs |-> "none"]
  /\ compExit = [p \in Procs |-> "none"]
  /\ det = [p \in Procs |-> "pending"]
  /\ giCancel = [p \in Procs |-> FALSE]
  /\ callErr = [p \in Procs |-> FALSE]
  /\ prev = [p \in Procs |-> NoPrev]
  /\ cancelAt = [p \in Procs |-> -1]
  /\ sawErr = [p \in Procs |-> FALSE]
  /\ recorded = {}
  /\ okSinceReset = {}
  /\ okEver = {}
  /\ must = [p \in Procs |-> {}]
  /\ may = [p \in Procs |-> {}]
  /\ modGen = [t \in Targets |-> FALSE]
  /\ modStart = [t \in Targets |-> FALSE]
  /\ modAfter = [t \in Targets |-> FALSE]

\* the entries a target directory may hold: generator sources of both kinds
\* with every source/companion time up to T, a directory whose name ends in
\* .qtpl, and a hand-written .go file.
GenEntries(T) == {Entry(s, TRUE, m, c) : s \in {"qtpl", "templ"}, m \in 1..T, c \in 0..T}
OtherEntries == {Entry("qtpl", FALSE, 1, 0), Entry("go", TRUE, 1, 0)}
Trees(E, n) == UNION {[1..k -> E] : k \in 0..n}

\* ---------------------------------------------------------------- QtcIsOld
\* var old bool; err := filepath.WalkDir(root, ...)
WalkInit(p, c) ==
  /\ caller' = [caller EXCEPT ![p] = c]
  /\ idx' = [idx EXCEPT ![p] = 0]
  /\ nvis' = [nvis EXCEPT ![p] = 0]
  /\ old' = [old EXCEPT ![p] = FALSE]
  /\ err' = [err EXCEPT ![p] = "nil"]
  /\ cancelAt' = [cancelAt EXCEPT ![p] = -1]
  /\ sawErr' = [sawErr EXCEPT ![p] = FALSE]

\* the caller has used QtcIsOld's results: they are dead from here on
WalkExit(p) ==
  /\ caller' = [caller EXCEPT ![p] = "none"]
  /\ idx' = [idx EXCEPT ![p] = 0]
  /\ nvis' = [nvis EXCEPT ![p] = 0]
  /\ old' = [old EXCEPT ![p] = FALSE]
  /\ err' = [err EXCEPT ![p] = "nil"]
  /\ cancelAt' = [cancelAt EXCEPT ![p] = -1]
  /\ sawErr' = [sawErr EXCEPT ![p] = FALSE]

\* WalkDir's visit of the root: os.Lstat(root), the callback on the root,
\* os.ReadDir(root) and, when that fails, the callback's second call.
WalkRoot(p, errs) ==
  /\ pc[p] = "walk" /\ idx[p] = 0
  /\ \E lstatErr \in errs, readErr \in errs, k \in 0..Len(tree[name[p]]) :
       LET r == WalkFn(cancelled[p], lstatErr, old[p], RootEntry, FALSE)
           n == Len(tree[name[p]])
           stop == r.r # "nil" \/ lstatErr \/ k = 0
       IN /\ lstatErr => ~readErr
          /\ (lstatErr \/ r.r # "nil") => k = 0
          /\ (~lstatErr /\ r.r = "nil" /\ ~readErr) => k = n
          /\ old' = [old EXCEPT ![p] = r.old]
          /\ err' = [err EXCEPT ![p] = IF r.r = "ctx" THEN "ctx" ELSE "nil"]
          /\ nvis' = [nvis EXCEPT ![p] = k]
          /\ idx' = [idx EXCEPT ![p] = IF r.r = "nil" /\ ~lstatErr THEN 1 ELSE 0]
          /\ cancelAt' = [cancelAt EXCEPT ![p] = IF cancelled[p] THEN 0 ELSE @]
          /\ sawErr' = [sawErr EXCEPT ![p] = @ \/ lstatErr \/ readErr]
          /\ callErr' = [callErr EXCEPT ![p] = @ \/ lstatErr \/ readErr]
          /\ giCancel' = [giCancel EXCEPT ![p] = @ \/ (cancelled[p] /\ caller[p] = "GoInstall")]
          /\ pc' = [pc EXCEPT ![p] = IF stop THEN AfterWalk(caller[p]) ELSE "walk"]
  /\ UNCHANGED <<fsV, regV, rdV, histV, modV, cancelled, caller>>
  /\ UNCHANGED <<op, name, force, ret, trace, genExit, compExit, det, prev>>

\* WalkDir's visit of one entry below the root: one call of the callback.
WalkEntry(p, errs) ==
  /\ pc[p] = "walk" /\ idx[p] >= 1 /\ idx[p] <= nvis[p]
  /\ idx[p] <= Len(tree[name[p]])
  /\ \E infoErr \in errs :
       LET e == tree[name[p]][idx[p]]
           r == WalkFn(cancelled[p], FALSE, old[p], e, infoErr)
           stop == r.r # "nil" \/ idx[p] = nvis[p]
       IN /\ old' = [old EXCEPT ![p] = r.old]
          /\ err' = [err EXCEPT ![p] = IF r.r \in {"ctx", "stat"} THEN r.r ELSE "nil"]
          /\ idx' = [idx EXCEPT ![p] = IF r.r = "nil" THEN @ + 1 ELSE @]
          /\ cancelAt' = [cancelAt EXCEPT ![p] = IF cancelled[p] THEN idx[p] ELSE @]
          /\ sawErr' = [sawErr EXCEPT ![p] = @ \/ r.r = "stat"]
          /\ callErr' = [callErr EXCEPT ![p] = @ \/ r.r = "stat"]
          /\ giCancel' = [giCancel EXCEPT ![p] = @ \/ (cancelled[p] /\ caller[p] = "GoInstall")]
          /\ pc' = [pc EXCEPT ![p] = IF stop THEN AfterWalk(caller[p]) ELSE "walk"]
  /\ UNCHANGED <<fsV, regV, rdV, histV, modV, cancelled, caller, nvis>>
  /\ UNCHANGED <<op, name, force, ret, trace, genExit, compExit, det, prev>>

\* ------------------------------------------------------------ GoShouldBuild
\* the history of a call that starts: nothing ran yet, the context is live
CallInit(p, o, n, f, tr) ==
  /\ op' = [op EXCEPT ![p] = o]
  /\ name' = [name EXCEPT ![p] = n]
  /\ force' = [force EXCEPT ![p] = f]
  /\ trace' = [trace EXCEPT ![p] = tr]
  /\ genExit' = [genExit EXCEPT ![p] = "none"]
  /\ compExit' = [compExit EXCEPT ![p] = "none"]
  /\ det' = [det EXCEPT ![p] = "pending"]
  /\ giCancel' = [giCancel EXCEPT ![p] = FALSE]
  /\ callErr' = [callErr EXCEPT ![p] = FALSE]
  /\ cancelled' = [cancelled EXCEPT ![p] = FALSE]
  /\ pc' = [pc EXCEPT ![p] = "walk"]

\* a caller enters GoShouldBuild(ctx, name): its QtcIsOld call begins
GoShouldBuildStart(p, names) ==
  /\ pc[p] = "idle"
  /\ \E n \in names :
       /\ CallInit(p, "GoShouldBuild", n, FALSE, <<"eval">>)
       /\ WalkInit(p, "GoShouldBuild")
  /\ ret' = [ret EXCEPT ![p] = Ret(FALSE, "none")]
  /\ UNCHANGED <<fsV, regV, rdV, histV, modV, prev>>

\* the state a call leaves when it returns (changed, err)
Return(p, c, e) ==
  /\ pc' = [pc EXCEPT ![p] = "ret"]
  /\ ret' = [ret EXCEPT ![p] = Ret(c, e)]

\* GoShouldBuild from the return of its QtcIsOld call to its own return,
\* and GoInstall's use of the result.
SbEval(p) ==
  /\ pc[p] = "sb_eval"
  /\ LET t == name[p]
         b == GoShouldBuild(old[p], err[p], MTime({destTime[t]}), isCmd[t],
                            MTime({goModTime}), MTime(GlobGoTimes(t)))
     IN IF op[p] = "GoInstall" /\ b
          THEN /\ pc' = [pc EXCEPT ![p] = "compile"]
               /\ UNCHANGED ret
          ELSE Return(p, b, "nil")
  /\ WalkExit(p)
  /\ UNCHANGED <<fsV, regV, rdV, histV, modV, cancelled>>
  /\ UNCHANGED <<op, name, force, trace, genExit, compExit, det, giCancel, callErr, prev>>

\* the caller's context is cancelled while its call is running
Cancel(p) ==
  /\ pc[p] \in {"walk", "gi_old", "gen", "gi_build", "sb_eval", "compile"}
  /\ ~cancelled[p]
  /\ cancelled' = [cancelled EXCEPT ![p] = TRUE]
  /\ UNCHANGED <<fsV, regV, walkV, callV, rdV, histV, modV, pc>>

\* a caller enters QtcIsOld(ctx, root) itself
QtcIsOldStart(p, names) ==
  /\ pc[p] = "idle"
  /\ \E n \in names :
       /\ CallInit(p, "QtcIsOld", n, FALSE, <<"detect">>)
       /\ WalkInit(p, "QtcIsOld")
  /\ ret' = [ret EXCEPT ![p] = Ret(FALSE, "none")]
  /\ UNCHANGED <<fsV, regV, rdV, histV, modV, prev>>

\* ---------------------------------------------------------------- GoInstall
\* a caller enters GoInstall(ctx, name, force): its QtcIsOld call begins
GoInstallStart(p, names, forces) ==
  /\ pc[p] = "idle"
  /\ \E n \in names, f \in forces :
       /\ CallInit(p, "GoInstall", n, f, <<"detect">>)
       /\ WalkInit(p, "GoInstall")
       /\ prev' = [prev EXCEPT ![p] =
                     IF @.name = n THEN [@ EXCEPT !.noMod = ~modStart[n]] ELSE NoPrev]
       /\ modStart' = [modStart EXCEPT ![n] = FALSE]
  /\ UNCHANGED <<fsV, regV, rdV, histV, ret, modGen, modAfter>>

\* if old, err := QtcIsOld(ctx, name); err != nil {...} else if old || force
GiCheckOld(p) ==
  /\ pc[p] = "gi_old"
  /\ det' = [det EXCEPT ![p] = IF err[p] # "nil" THEN "error"
                                ELSE IF old[p] THEN "stale" ELSE "none"]
  /\ IF err[p] # "nil"
       THEN Return(p, TRUE, err[p])
       ELSE /\ pc' = [pc EXCEPT ![p] = IF ShouldGenerate(old[p], force[p])
                                         THEN "gen" ELSE "gi_build"]
            /\ UNCHANGED ret
  /\ WalkExit(p)
  /\ UNCHANGED <<fsV, regV, rdV, histV, modV, cancelled>>
  /\ UNCHANGED <<op, name, force, trace, genExit, compExit, giCancel, callErr, prev>>

\* what a successful qtc run leaves in the directory: the companion of every
\* regular .qtpl file, written at the current time
QtcOutput(tr, now) ==
  [i \in 1..Len(tr) |-> IF tr[i].regular /\ tr[i].suffix = "qtpl"
                          THEN [tr[i] EXCEPT !.co = now] ELSE tr[i]]

\* cmd := exec.CommandContext(ctx, "qtc"); cmd.Dir = name; cmd.CombinedOutput()
RunQtc(p) ==
  /\ pc[p] = "gen"
  /\ trace' = [trace EXCEPT ![p] = Append(@, "gen")]
  /\ \E exit \in Exits(cancelled[p]) :
       /\ genExit' = [genExit EXCEPT ![p] = IF exit = 0 THEN "zero" ELSE "nonzero"]
       /\ tree' = IF exit = 0
                    THEN [tree EXCEPT ![name[p]] = QtcOutput(@, clock)] ELSE tree
       /\ modGen' = IF exit = 0 THEN [modGen EXCEPT ![name[p]] = FALSE] ELSE modGen
       /\ IF CmdErr(exit)
            THEN Return(p, TRUE, "gen")
            ELSE /\ pc' = [pc EXCEPT ![p] = "gi_build"]
                 /\ UNCHANGED ret
  /\ UNCHANGED <<destTime, isCmd, goTime, goModTime, clock>>
  /\ UNCHANGED <<regV, walkV, rdV, histV, cancelled, modStart, modAfter>>
  /\ UNCHANGED <<op, name, force, compExit, det, giCancel, callErr, prev>>

\* if force || GoShouldBuild(ctx, name): force short-circuits the evaluation
GiBuild(p) ==
  /\ pc[p] = "gi_build"
  /\ IF force[p]
       THEN /\ pc' = [pc EXCEPT ![p] = "compile"]
            /\ UNCHANGED <<walkV, trace>>
       ELSE /\ pc' = [pc EXCEPT ![p] = "walk"]
            /\ trace' = [trace EXCEPT ![p] = Append(@, "eval")]
            /\ WalkInit(p, "GoShouldBuild")
  /\ UNCHANGED <<fsV, regV, rdV, histV, modV, cancelled>>
  /\ UNCHANGED <<op, name, force, ret, genExit, compExit, det, giCancel, callErr, prev>>

\* cmd := exec.CommandContext(ctx, "go", "install", ...); cmd.CombinedOutput()
\* A successful go install of a command writes GoBin/name at the current time.
RunGoInstall(p) ==
  /\ pc[p] = "compile"
  /\ trace' = [trace EXCEPT ![p] = Append(@, "compile")]
  /\ \E exit \in Exits(cancelled[p]) :
       /\ compExit' = [compExit EXCEPT ![p] = IF exit = 0 THEN "zero" ELSE "nonzero"]
       /\ destTime' = IF exit = 0 /\ isCmd[name[p]]
                        THEN [destTime EXCEPT ![name[p]] = clock] ELSE destTime
       /\ okSinceReset' = IF exit = 0 THEN okSinceReset \cup {name[p]} ELSE okSinceReset
       /\ okEver' = IF exit = 0 THEN okEver \cup {name[p]} ELSE okEver
       /\ IF CmdErr(exit)
            THEN Return(p, TRUE, "compile")
            ELSE /\ pc' = [pc EXCEPT ![p] = "lock"]
                 /\ UNCHANGED ret
  /\ UNCHANGED <<tree, isCmd, goTime, goModTime, clock>>
  /\ UNCHANGED <<regV, walkV, rdV, recorded, cancelled, modV>>
  /\ UNCHANGED <<op, name, force, genExit, det, giCancel, callErr, prev>>

\* installedMu.Lock()
GiLock(p) ==
  /\ pc[p] = "lock"
  /\ CanLock(mu)
  /\ mu' = [mu EXCEPT !.writer = p]
  /\ pc' = [pc EXCEPT ![p] = "record"]
  /\ UNCHANGED <<fsV, installed, walkV, callV, rdV, histV, modV, cancelled>>

\* installed[name] = struct{}{}; installedMu.Unlock(); return true, nil
GiRecord(p) ==
  /\ pc[p] = "record"
  /\ installed' = RecordInstalled(installed, name[p])
  /\ mu' = [mu EXCEPT !.writer = "none"]
  /\ trace' = [trace EXCEPT ![p] = Append(@, "record")]
  /\ recorded' = recorded \cup {name[p]}
  /\ may' = [r \in Procs |-> IF pc[r] \in {"rlock", "copy"} THEN may[r] \cup {name[p]} ELSE may[r]]
  /\ Return(p, TRUE, "nil")
  /\ UNCHANGED <<fsV, walkV, ss, must, okSinceReset, okEver, cancelled, modV>>
  /\ UNCHANGED <<op, name, force, genExit, compExit, det, giCancel, callErr, prev>>

\* ------------------------------------------------ Installed, ResetInstalled
\* a caller enters Installed()
InstalledStart(p) ==
  /\ pc[p] = "idle"
  /\ pc' = [pc EXCEPT ![p] = "rlock"]
  /\ op' = [op EXCEPT ![p] = "Installed"]
  /\ ss' = [ss EXCEPT ![p] = {}]
  /\ must' = [must EXCEPT ![p] = recorded]
  /\ may' = [may EXCEPT ![p] = recorded]
  /\ UNCHANGED <<fsV, regV, walkV, histV, modV, cancelled>>
  /\ UNCHANGED <<name, force, ret, trace, genExit, compExit, det, giCancel, callErr, prev>>

\* installedMu.RLock(); ss := make([]string, 0, len(installed))
InstalledRLock(p) ==
  /\ pc[p] = "rlock"
  /\ CanRLock(mu)
  /\ mu' = [mu EXCEPT !.readers = @ \cup {p}]
  /\ pc' = [pc EXCEPT ![p] = "copy"]
  /\ UNCHANGED <<fsV, installed, walkV, callV, rdV, histV, modV, cancelled>>

\* for k := range installed { ss = append(ss, k) }
InstalledCopy(p) ==
  /\ pc[p] = "copy"
  /\ \E k \in installed \ ss[p] : ss' = [ss EXCEPT ![p] = @ \cup {k}]
  /\ UNCHANGED <<fsV, regV, walkV, callV, must, may, histV, modV, pc, cancelled>>

\* return ss, with the deferred installedMu.RUnlock()
InstalledReturn(p) ==
  /\ pc[p] = "copy"
  /\ installed \subseteq ss[p]
  /\ mu' = [mu EXCEPT !.readers = @ \ {p}]
  /\ pc' = [pc EXCEPT ![p] = "ret"]
  /\ UNCHANGED <<fsV, installed, walkV, callV, rdV, histV, modV, cancelled>>

\* ResetInstalled: installedMu.Lock()
ResetLock(p) ==
  /\ pc[p] = "idle"
  /\ CanLock(mu)
  /\ mu' = [mu EXCEPT !.writer = p]
  /\ pc' = [pc EXCEPT ![p] = "clear"]
  /\ op' = [op EXCEPT ![p] = "ResetInstalled"]
  /\ UNCHANGED <<fsV, installed, walkV, rdV, histV, modV, cancelled>>
  /\ UNCHANGED <<name, force, ret, trace, genExit, compExit, det, giCancel, callErr, prev>>

\* ResetInstalled: clear(installed); installedMu.Unlock()
ResetClear(p) ==
  /\ pc[p] = "clear"
  /\ installed' = ClearInstalled(installed)
  /\ mu' = [mu EXCEPT !.writer = "none"]
  /\ pc' = [pc EXCEPT ![p] = "idle"]
  /\ recorded' = {}
  /\ okSinceReset' = {}
  /\ must' = [r \in Procs |-> {}]
  /\ op' = [op EXCEPT ![p] = "none"]
  /\ UNCHANGED <<fsV, walkV, ss, may, okEver, modV, cancelled>>
  /\ UNCHANGED <<name, force, ret, trace, genExit, compExit, det, giCancel, callErr, prev>>

\* the caller has received the call's results; the frame is gone. keep says
\* whether the outcome is remembered for the caller's next GoInstall call.
Finish(p, keep) ==
  /\ pc[p] = "ret"
  /\ pc' = [pc EXCEPT ![p] = "idle"]
  /\ prev' = [prev EXCEPT ![p] =
                IF keep /\ op[p] = "GoInstall"
                  THEN [name |-> name[p],
                        genOnly |-> genExit[p] = "zero" /\ compExit[p] = "nonzero",
                        ok |-> ret[p] = Ret(TRUE, "nil"),
                        noErr |-> ~callErr[p], noMod |-> TRUE]
                  ELSE @]
  /\ modAfter' = IF op[p] = "GoInstall"
                   THEN [modAfter EXCEPT ![name[p]] = FALSE] ELSE modAfter
  /\ op' = [op EXCEPT ![p] = "none"]
  /\ name' = [name EXCEPT ![p] = "foo"]
  /\ force' = [force EXCEPT ![p] = FALSE]
  /\ ret' = [ret EXCEPT ![p] = Ret(FALSE, "none")]
  /\ trace' = [trace EXCEPT ![p] = << >>]
  /\ genExit' = [genExit EXCEPT ![p] = "none"]
  /\ compExit' = [compExit EXCEPT ![p] = "none"]
  /\ det' = [det EXCEPT ![p] = "pending"]
  /\ giCancel' = [giCancel EXCEPT ![p] = FALSE]
  /\ callErr' = [callErr EXCEPT ![p] = FALSE]
  /\ cancelled' = [cancelled EXCEPT ![p] = FALSE]
  /\ ss' = [ss EXCEPT ![p] = {}]
  /\ must' = [must EXCEPT ![p] = {}]
  /\ may' = [may EXCEPT ![p] = {}]
  /\ WalkExit(p)
  /\ UNCHANGED <<fsV, regV, histV, modGen, modStart>>

\* ------------------------------------------------------------ environment
\* the wall clock advances
Tick ==
  /\ clock < MaxTime
  /\ clock' = clock + 1
  /\ UNCHANGED <<tree, destTime, isCmd, goTime, goModTime>>
  /\ UNCHANGED <<regV, walkV, callV, rdV, histV, modV, pc, cancelled>>

\* a file the targets in ts depend on was modified
Touched(ts) ==
  /\ modStart' = [t \in Targets |-> modStart[t] \/ t \in ts]
  /\ modAfter' = [t \in Targets |-> modAfter[t] \/ t \in ts]

\* somebody saves a generator source of the target
TouchSrc(t) ==
  /\ \E i \in 1..Len(tree[t]) :
       /\ tree[t][i].regular /\ tree[t][i].suffix \in {"qtpl", "templ"}
       /\ tree[t][i].mt < clock
       /\ tree' = [tree EXCEPT ![t][i].mt = clock]
  /\ modGen' = [modGen EXCEPT ![t] = TRUE]
  /\ Touched({t})
  /\ UNCHANGED <<destTime, isCmd, goTime, goModTime, clock>>
  /\ UNCHANGED <<regV, walkV, callV, rdV, histV, pc, cancelled>>

\* somebody saves go.mod
TouchGoMod ==
  /\ goModTime < clock
  /\ goModTime' = clock
  /\ Touched(Targets)
  /\ UNCHANGED <<tree, destTime, isCmd, goTime, clock, modGen>>
  /\ UNCHANGED <<regV, walkV, callV, rdV, histV, pc, cancelled>>

\* --------------------------------------------- GoShouldBuild called alone
\* a stale and a fresh .qtpl file and a stale .templ file
FnEntries == {Entry("qtpl", TRUE, MaxTime, 0), Entry("qtpl", TRUE, 1, MaxTime),
              Entry("templ", TRUE, MaxTime, 0)}

InitFn ==
  /\ InitProcs
  /\ clock = MaxTime
  /\ \E tr \in Trees(FnEntries, MaxFiles) :
       tree = [t \in Targets |-> IF t = "foo" THEN tr ELSE << >>]
  /\ \E d \in 0..MaxTime : destTime = [t \in Targets |-> IF t = "foo" THEN d ELSE 0]
  /\ \E g \in 0..MaxTime : goTime = [t \in Targets |-> IF t = "foo" THEN g ELSE 0]
  /\ \E c \in BOOLEAN : isCmd = [t \in Targets |-> c]
  /\ goModTime \in 0..MaxTime

NextFn ==
  \/ GoShouldBuildStart("w1", {"foo"})
  \/ WalkRoot("w1", BOOLEAN)
  \/ WalkEntry("w1", BOOLEAN)
  \/ SbEval("w1")
  \/ Cancel("w1")
  \/ Finish("w1", FALSE)

SpecFn == InitFn /\ [][NextFn]_vars

\* -------------------------------------------------- QtcIsOld called alone
InitQ ==
  /\ InitProcs
  /\ clock = MaxTime
  /\ \E tr \in Trees(GenEntries(MaxTime) \cup OtherEntries, MaxFiles) :
       tree = [t \in Targets |-> IF t = "foo" THEN tr ELSE << >>]
  /\ destTime = [t \in Targets |-> 0]
  /\ goTime = [t \in Targets |-> 1]
  /\ isCmd = [t \in Targets |-> TRUE]
  /\ goModTime = 1

NextQ ==
  \/ QtcIsOldStart("w1", {"foo"})
  \/ WalkRoot("w1", BOOLEAN)
  \/ WalkEntry("w1", BOOLEAN)
  \/ Cancel("w1")
  \/ Finish("w1", FALSE)

SpecQ == InitQ /\ [][NextQ]_vars

\* ------------------------------- GoInstall on one target, files changing
\* the target's directory at the start: empty, or holding one entry (a
\* stale or a fresh .qtpl file, or a directory named like one)
InitEntries == {Entry("qtpl", TRUE, 1, 0), Entry("qtpl", TRUE, 1, 1), Entry("qtpl", FALSE, 1, 0)}
InitTrees == {<< >>} \cup {<<e>> : e \in InitEntries}

Init ==
  /\ InitProcs
  /\ clock = 1
  /\ \E tr \in InitTrees :
       tree = [t \in Targets |-> IF t = "foo" THEN tr ELSE << >>]
  /\ \E d \in {0, 1} : destTime = [t \in Targets |-> IF t = "foo" THEN d ELSE 0]
  /\ goTime = [t \in Targets |-> 1]
  /\ \E c \in BOOLEAN : isCmd = [t \in Targets |-> c]
  /\ goModTime = 1

Next ==
  \/ GoInstallStart("w1", {"foo"}, BOOLEAN)
  \/ WalkRoot("w1", BOOLEAN)
  \/ WalkEntry("w1", BOOLEAN)
  \/ GiCheckOld("w1")
  \/ RunQtc("w1")
  \/ GiBuild("w1")
  \/ SbEval("w1")
  \/ RunGoInstall("w1")
  \/ GiLock("w1")
  \/ GiRecord("w1")
  \/ Cancel("w1")
  \/ Finish("w1", TRUE)
  \/ Tick
  \/ TouchSrc("foo")
  \/ TouchGoMod

Spec == Init /\ [][Next]_vars

\* --------------------- concurrent GoInstall, Installed and ResetInstalled
InitReg ==
  /\ InitProcs
  /\ clock = 1
  /\ tree = [t \in Targets |-> << >>]
  /\ destTime = [t \in Targets |-> 0]
  /\ goTime = [t \in Targets |-> 1]
  /\ isCmd = [t \in Targets |-> TRUE]
  /\ goModTime = 1

NextReg ==
  \/ \E p \in Installers :
       \/ GoInstallStart(p, Targets, BOOLEAN)
       \/ WalkRoot(p, {FALSE})
       \/ GiCheckOld(p)
       \/ RunQtc(p)
       \/ GiBuild(p)
       \/ SbEval(p)
       \/ RunGoInstall(p)
       \/ GiLock(p)
       \/ GiRecord(p)
       \/ Finish(p, FALSE)
  \/ \E p \in Readers :
       \/ InstalledStart(p)
       \/ InstalledRLock(p)
       \/ InstalledCopy(p)
       \/ InstalledReturn(p)
       \/ Finish(p, FALSE)
  \/ \E p \in Resetters :
       \/ ResetLock(p)
       \/ ResetClear(p)

SpecReg == InitReg /\ [][NextReg]_vars

\* ================================================================ claims
W == "w1"
T0 == "foo"
Has(tr, x) == \E i \in 1..Len(tr) : tr[i] = x
Done(p, o) == pc[p] = "ret" /\ op[p] = o
StaleEntry(e, kinds) == e.regular /\ e.suffix \in kinds /\ e.mt > e.co
StaleIn(t, kinds) == \E i \in 1..Len(tree[t]) : StaleEntry(tree[t][i], kinds)
GenFilesIn(t, kinds) == {i \in 1..Len(tree[t]) : tree[t][i].regular /\ tree[t][i].suffix \in kinds}
CleanCall(p) == ~cancelled[p] /\ ~callErr[p]

\* C1: GoShouldBuild returns true for every target that has an installed
\* artifact older than the newest of the target's own *.go files.
C1_NewerSourceForcesBuild ==
  (Done(W, "GoShouldBuild") /\ destTime[T0] # 0
     /\ MTime(GlobGoTimes(T0)) > destTime[T0])
  => ret[W].changed

\* C6: with no installed artifact and no stale generator source,
\* GoShouldBuild answers exactly "the target is a command", whatever the
\* times of go.mod and of the target's sources.
C6_NoArtifactBuildsIffCommand ==
  (Done(W, "GoShouldBuild") /\ CleanCall(W) /\ destTime[T0] = 0
     /\ ~StaleIn(T0, {"qtpl", "templ"}))
  => ret[W] = Ret(isCmd[T0], "nil")

C6_Witness ==
  /\ Done(W, "GoShouldBuild") /\ CleanCall(W) /\ destTime[T0] = 0
  /\ ~StaleIn(T0, {"qtpl", "templ"}) /\ GenFilesIn(T0, {"qtpl"}) # {}
  /\ ~isCmd[T0] /\ goModTime = MaxTime /\ goTime[T0] < goModTime
  /\ ret[W] = Ret(FALSE, "nil")

C9_ModernKindDetected ==
  (Done(W, "QtcIsOld") /\ CleanCall(W)
     /\ GenFilesIn(T0, {"qtpl"}) = {} /\ StaleIn(T0, {"templ"}))
  => old[W]

\* the position of a step in GoInstall's prescribed order
Rank(x) == CASE x = "detect" -> 1 [] x = "gen" -> 2 [] x = "eval" -> 3
             [] x = "compile" -> 4 [] x = "record" -> 5

\* C4: the steps of one GoInstall call come in the order detect, generate,
\* evaluate, compile, record; a call whose detector fails or whose generator
\* exits non-zero returns an error and neither compiles nor records.
C4_StepOrderAndAbort ==
  \A p \in Installers :
    op[p] = "GoInstall" =>
      /\ \A i, j \in 1..Len(trace[p]) : i < j => Rank(trace[p][i]) < Rank(trace[p][j])
      /\ trace[p] # << >> /\ trace[p][1] = "detect"
      /\ Has(trace[p], "record") => Has(trace[p], "compile")
      /\ Has(trace[p], "compile") => (force[p] \/ Has(trace[p], "eval"))
      /\ (det[p] = "error" \/ genExit[p] = "nonzero") =>
           /\ pc[p] = "ret" /\ ret[p].err # "nil"
           /\ ~Has(trace[p], "compile") /\ ~Has(trace[p], "record")

C4_Witness ==
  /\ Done(W, "GoInstall") /\ genExit[W] = "nonzero"
  /\ ret[W] = Ret(TRUE, "gen") /\ trace[W] = <<"detect", "gen">>

\* C5: GoInstall invokes the generator if and only if its staleness
\* detector reported stale.
C5_GeneratorIffStale ==
  Done(W, "GoInstall") => (Has(trace[W], "gen") <=> det[W] = "stale")

\* C7: a walk that visits an entry while the context is cancelled stops at
\* that entry and QtcIsOld returns the context's error with old = false;
\* GoInstall then returns that error and runs neither generator nor compiler.
C7_CancelStopsWalk ==
  \A p \in Installers :
    /\ pc[p] = "walk" => cancelAt[p] = -1
    /\ (pc[p] \in {"gi_old", "sb_eval"} /\ cancelAt[p] >= 0) =>
         err[p] = "ctx" /\ ~old[p] /\ idx[p] = cancelAt[p]
    /\ (Done(p, "GoInstall") /\ giCancel[p]) =>
         ret[p] = Ret(TRUE, "ctx") /\ trace[p] = <<"detect">>

C7_Witness ==
  /\ pc[W] = "gi_old" /\ giCancel[W] /\ cancelAt[W] = 1 /\ idx[W] = 1
  /\ StaleIn(T0, {"qtpl"}) /\ err[W] = "ctx" /\ ~old[W]

\* the first half of C10: the previous call ran the generator with success
\* and its compiler failed, this call is not forced and no generator source
\* was modified since the generator ran: the detector does not report stale
\* and the call never stands before the generator's invocation.
C10_NoSecondGenerate ==
  (op[W] = "GoInstall" /\ prev[W].name = name[W] /\ prev[W].genOnly
     /\ ~force[W] /\ ~modGen[name[W]])
  => /\ pc[W] # "gen"
     /\ ~(pc[W] = "gi_old" /\ old[W] /\ err[W] = "nil")

C2_SetSemantics ==
  /\ installed = recorded
  /\ \A r \in Readers :
       Done(r, "Installed") => must[r] \subseteq ss[r] /\ ss[r] \subseteq may[r]

C2_Witness ==
  \E r \in Readers :
    /\ Done(r, "Installed") /\ must[r] = {"foo"} /\ ss[r] = Targets

\* C3 as stated: a name is in the installed set only if the compiler ran
\* for it with exit 0 since the last ResetInstalled cleared the set.
C3_Original == installed \subseteq okSinceReset

\* C3 amended: a name is in the installed set only if a GoInstall call for
\* it ran the compiler with exit 0 (before the recording; a concurrent reset
\* may fall between the two); a call whose compiler exits 0 records and
\* returns (true, nil), one whose compiler exits non-zero returns an error
\* and does not record.
C3_OnlySuccessfulInstalls ==
  /\ installed \subseteq okEver
  /\ \A p \in Installers :
       /\ pc[p] \in {"lock", "record"} => compExit[p] = "zero"
       /\ (Done(p, "GoInstall") /\ compExit[p] = "zero") =>
            ret[p] = Ret(TRUE, "nil") /\ Has(trace[p], "record")
       /\ (Done(p, "GoInstall") /\ compExit[p] = "nonzero") =>
            ret[p] = Ret(TRUE, "compile") /\ ~Has(trace[p], "record")
       /\ (Done(p, "GoInstall") /\ Has(trace[p], "record")) => compExit[p] = "zero"

C3_Witness ==
  /\ installed = {"bar"} /\ okSinceReset = {}
  /\ Done("w2", "GoInstall") /\ ret["w2"] = Ret(TRUE, "nil")
  /\ Done("w1", "GoInstall") /\ compExit["w1"] = "nonzero"

====
